---- MODULE Spec2Model ----
(***************************************************************************)
(* The voice-session controller of the ConsolePage variants: the           *)
(* connect / disconnect / startRecording / stopRecording handlers, the     *)
(* mount-time effects and the auto-connect effect, as a state machine over *)
(* the React state (isConnected, isRecording) and the three collaborators  *)
(* (WavRecorder, WavStreamPlayer, RealtimeClient).                         *)
(*                                                                         *)
(* One step is one synchronous segment of a handler: from its invocation,  *)
(* or from the resolution of the call it awaits, up to the next await.     *)
(* The state updates of a segment are batched, and the render and the      *)
(* effects they trigger are part of the same step.                         *)
(*                                                                         *)
(* The event log (the 'realtime.event' handler) and the transcript (the    *)
(* rendering of a conversation item) are functions of their inputs alone   *)
(* and have a specification each, SpecLog and SpecRender.                  *)
(***************************************************************************)
EXTENDS Naturals, Sequences, FiniteSets, Bags, TLC

VARIABLES variant, mounted, isConnected, isRecording,
          recOpen, recCapturing, playerConnected, clientConnected, vad,
          tasks, ev,
          realtimeEvents, arrived, item, shown,
          displayed, env, client, items, conversation, before,
          wave, memoryKv, updates, written, toolResult

vars == <<variant, mounted, isConnected, isRecording,
          recOpen, recCapturing, playerConnected, clientConnected, vad,
          tasks, ev,
          realtimeEvents, arrived, item, shown,
          displayed, env, client, items, conversation, before,
          wave, memoryKv, updates, written, toolResult>>

\* What the render loop and the memory tool hold.
Background == <<wave, memoryKv, updates, written, toolResult>>

\* What the page draws the log, its environment and its transcript from.
Page == <<displayed, env, client, items, conversation, before, Background>>

\* A user action is taken only while fewer than MaxTasks handler executions
\* are suspended at an await (the executions the effects start come on top).
MaxTasks == 2

\* The sample offsets a playback interruption can report are 0..MaxOffset.
MaxOffset == 1

\* At most MaxEvents realtime events arrive between two resets of the log.
MaxEvents == 4

\* The audio of a conversation item has 0..MaxAudio samples.
MaxAudio == 1

\* The audio of a realtime event has 0..MaxBytes characters.
MaxBytes == 2

\* The client's conversation holds at most MaxItems items.
MaxItems == 2

\* The render loop's calls are counted modulo MaxFrames + 1.
MaxFrames == 3

\* At most MaxWrites set_memory calls between two resets of the memory.
MaxWrites == 3

(***************************************************************************)
(* The page variants.                                                      *)
(*   p003  src/unnamed/part_003            connect (pausing a recording    *)
(*         first), disconnect, guarded startRecording, stopRecording, the  *)
(*         turn-detection mount effect, the auto-connect effect            *)
(*   p001  src/unnamed/part_001:262-386    connect, disconnect, start,     *)
(*         stop, the auto-connect effect, toggling buttons                 *)
(*   cp1   src/src/pages/ConsolePage.tsx:38-344   connect, auto-connect    *)
(*   cp2   src/src/pages/ConsolePage.tsx:353-553  connect, auto-connect,   *)
(*         start (opening the device itself), stop, disabled buttons       *)
(*   p002  src/unnamed/part_002            start (pausing first), stop,    *)
(*         the turn-detection mount effect, buttons always enabled         *)
(***************************************************************************)
Variants == {"p003", "p001", "cp1", "cp2", "p002"}

\* The variants with the effect that calls connectConversation when
\* isConnected is false.
HasAutoConnect(v) == v \in {"p003", "p001", "cp1", "cp2"}

\* useCallback(..., [isRecording]): connectConversation is a new function
\* whenever isRecording changes, which re-runs the effects depending on it.
ConnectDependsOnRecording(v) == v = "p003"

HasDisconnect(v) == v \in {"p003", "p001"}

HasRecordingHandlers(v) == v \in {"p003", "p001", "cp2", "p002"}

\* The mount effect that configures server-side turn detection.
HasTurnDetectionEffect(v) == v \in {"p003", "p002"}

NoCalls == <<>>

Has(calls, c) == \E i \in 1..Len(calls) : calls[i] = c

\* The call a suspended execution awaits at each position.
AwaitedCall(pc) ==
  CASE pc = "c_pause"     -> "rec.pause"
    [] pc = "c_begin"     -> "rec.begin"
    [] pc = "c_player"    -> "player.connect"
    [] pc = "c_client"    -> "client.connect"
    [] pc = "c_record"    -> "rec.record"
    [] pc = "d_end"       -> "rec.end"
    [] pc = "d_interrupt" -> "player.interrupt"
    [] pc = "s_pause"     -> "rec.pause"
    [] pc = "s_begin"     -> "rec.begin"
    [] pc = "s_pconnect"  -> "player.connect"
    [] pc = "s_interrupt" -> "player.interrupt"
    [] pc = "s_cancel"    -> "client.cancelResponse"
    [] pc = "s_record"    -> "rec.record"
    [] pc = "t_pause"     -> "rec.pause"

KindOf(pc) ==
  CASE pc \in {"c_pause", "c_begin", "c_player", "c_client", "c_record"} -> "connect"
    [] pc \in {"d_end", "d_interrupt"} -> "disconnect"
    [] pc \in {"s_pause", "s_begin", "s_pconnect", "s_interrupt", "s_cancel", "s_record"} -> "start"
    [] pc = "t_pause" -> "stop"

\* A suspended execution: where it waits, who invoked it (the effect, which
\* catches and logs a rejection, or a user action), and whether
\* disconnectConversation has been invoked since it started.
Task(pc, via, disc) == [pc |-> pc, via |-> via, disc |-> disc]

One(t) == SetToBag({t})

NumTasks == BagCardinality(tasks)

InFlight(kind) == \E t \in BagToSet(tasks) : KindOf(t.pc) = kind


(***************************************************************************)
(* The handlers, one synchronous segment at a time.  A segment is          *)
(*   calls  the collaborator calls it issues, in order (the last one is    *)
(*          the call it then awaits, unless next = "done")                 *)
(*   next   where the execution is suspended after it, or "done"           *)
(*   conn   what it does to isConnected: "T", "F" or "keep"                *)
(*   rec    what it does to isRecording: "T", "F" or "keep"                *)
(***************************************************************************)
Seg(calls, next, conn, rec) ==
  [calls |-> calls, next |-> next, conn |-> conn, rec |-> rec]

Apply(cur, s) == IF s = "T" THEN TRUE ELSE IF s = "F" THEN FALSE ELSE cur

\* connectConversation checks isRecording first in the variants whose
\* callback closes over it.
ConnectPausesFirst(v) == v = "p003"

\* connectConversation going straight to wavRecorder.begin().
ConnectStartNoPause(v, recording) ==
  Seg(<<"rec.begin">>, "c_begin", "T", "keep")

\* connectConversation without its setIsConnected(true).
ConnectStartFlagLate(v, recording) ==
  IF ConnectPausesFirst(v) /\ recording
    THEN Seg(<<"rec.pause">>, "c_pause", "keep", "keep")
    ELSE Seg(<<"rec.begin">>, "c_begin", "keep", "keep")

\* connectConversation from its invocation to its first await.  recording is
\* the isRecording of the render the callback was created in.
ConnectStart(v, recording) ==
  IF ConnectPausesFirst(v) /\ recording
    THEN Seg(<<"rec.pause">>, "c_pause", "keep", "keep")
    ELSE Seg(<<"rec.begin">>, "c_begin", "T", "keep")

\* connectConversation with wavStreamPlayer.connect() not awaited.
ConnectAfterUnawaited(v, pc) ==
  CASE pc = "c_pause"  -> Seg(<<"rec.begin">>, "c_begin", "T", "F")
    [] pc = "c_begin"  -> Seg(<<"player.connect", "client.connect">>, "c_client",
                              "keep", "keep")
    [] pc = "c_player" -> Seg(<<"client.connect">>, "c_client", "keep", "keep")
    [] pc = "c_client" -> Seg(<<"client.sendUserMessageContent", "rec.record">>,
                              "c_record", "keep", "keep")
    [] pc = "c_record" -> Seg(NoCalls, "done",
                              "keep", IF ConnectPausesFirst(v) THEN "T" ELSE "keep")

\* connectConversation sending its greeting before client.connect().
ConnectAfterGreetsEarly(v, pc) ==
  CASE pc = "c_pause"  -> Seg(<<"rec.begin">>, "c_begin", "T", "F")
    [] pc = "c_begin"  -> Seg(<<"player.connect">>, "c_player", "keep", "keep")
    [] pc = "c_player" -> Seg(<<"client.sendUserMessageContent", "client.connect">>,
                              "c_client", "keep", "keep")
    [] pc = "c_client" -> Seg(<<"rec.record">>, "c_record", "keep", "keep")
    [] pc = "c_record" -> Seg(NoCalls, "done",
                              "keep", IF ConnectPausesFirst(v) THEN "T" ELSE "keep")

\* connectConversation from the resolution of the call awaited at pc to the
\* next await.
ConnectAfter(v, pc) ==
  CASE pc = "c_pause"  -> Seg(<<"rec.begin">>, "c_begin", "T", "F")
    [] pc = "c_begin"  -> Seg(<<"player.connect">>, "c_player", "keep", "keep")
    [] pc = "c_player" -> Seg(<<"client.connect">>, "c_client", "keep", "keep")
    [] pc = "c_client" -> Seg(<<"client.sendUserMessageContent", "rec.record">>,
                              "c_record", "keep", "keep")
    [] pc = "c_record" -> Seg(NoCalls, "done",
                              "keep", IF ConnectPausesFirst(v) THEN "T" ELSE "keep")

\* disconnectConversation.
DisconnectStart(v) == Seg(<<"client.disconnect", "rec.end">>, "d_end", "F", "keep")

DisconnectAfter(v, pc) ==
  CASE pc = "d_end"       -> Seg(<<"player.interrupt">>, "d_interrupt", "keep", "keep")
    [] pc = "d_interrupt" -> Seg(NoCalls, "done", "keep", "keep")

\* startRecording.  recording is the isRecording of the current render,
\* capturing is what the recorder itself reports (wavRecorder.recording,
\* wavRecorder.isRecording()).
StartStart(v, recording, capturing) ==
  CASE v = "p003" -> IF recording
                       THEN Seg(NoCalls, "done", "keep", "keep")
                       ELSE Seg(<<"player.interrupt">>, "s_interrupt", "keep", "T")
    [] v = "p001" -> Seg(<<"player.interrupt">>, "s_interrupt", "keep", "T")
    [] v = "p002" -> IF capturing
                       THEN Seg(<<"rec.pause">>, "s_pause", "keep", "keep")
                       ELSE Seg(<<"player.interrupt">>, "s_interrupt", "keep", "T")
    [] v = "cp2"  -> IF ~capturing
                       THEN Seg(<<"rec.begin">>, "s_begin", "keep", "keep")
                       ELSE Seg(<<"player.connect">>, "s_pconnect", "keep", "T")

\* What wavStreamPlayer.interrupt() resolves with: null, or the offset
\* { trackId, offset } of the track that was playing, whose trackId may be
\* empty.  Offsets are sample positions, up to MaxOffset.
TrackIds == {"", "a", "b"}

NullOffset == [null |-> TRUE, trackId |-> "", offset |-> 0]

TrackOffsets ==
  {NullOffset} \cup [null : {FALSE}, trackId : TrackIds, offset : 0..MaxOffset]

\* if (trackSampleOffset?.trackId)
HasTrackId(ret) == ~ret.null /\ ret.trackId # ""

\* const { trackId, offset } = trackSampleOffset;
\* client.cancelResponse(trackId, offset)
CancelArgs(ret) == <<ret.trackId, ret.offset>>

\* startRecording going on to record() without reporting the interrupted
\* track.
StartAfterSkipsCancel(v, pc, hasTrack) ==
  CASE pc = "s_pause"     -> Seg(<<"player.interrupt">>, "s_interrupt", "keep", "T")
    [] pc = "s_begin"     -> Seg(<<"player.connect">>, "s_pconnect", "keep", "T")
    [] pc = "s_pconnect"  -> Seg(<<"player.interrupt">>, "s_interrupt", "keep", "keep")
    [] pc = "s_interrupt" -> Seg(<<"rec.record">>, "s_record", "keep", "keep")
    [] pc = "s_cancel"    -> Seg(<<"rec.record">>, "s_record", "keep", "keep")
    [] pc = "s_record"    -> Seg(NoCalls, "done", "keep", "keep")

\* hasTrack: wavStreamPlayer.interrupt() returned an offset with a trackId.
StartAfter(v, pc, hasTrack) ==
  CASE pc = "s_pause"     -> Seg(<<"player.interrupt">>, "s_interrupt", "keep", "T")
    [] pc = "s_begin"     -> Seg(<<"player.connect">>, "s_pconnect", "keep", "T")
    [] pc = "s_pconnect"  -> Seg(<<"player.interrupt">>, "s_interrupt", "keep", "keep")
    [] pc = "s_interrupt" -> IF hasTrack
                               THEN Seg(<<"client.cancelResponse">>, "s_cancel", "keep", "keep")
                               ELSE Seg(<<"rec.record">>, "s_record", "keep", "keep")
    [] pc = "s_cancel"    -> Seg(<<"rec.record">>, "s_record", "keep", "keep")
    [] pc = "s_record"    -> Seg(NoCalls, "done", "keep", "keep")

\* stopRecording.
StopStart(v, capturing) ==
  IF v = "cp2"
    THEN IF capturing
           THEN Seg(<<"rec.pause">>, "t_pause", "keep", "keep")
           ELSE Seg(<<"client.createResponse">>, "done", "keep", "F")
    ELSE Seg(<<"rec.pause">>, "t_pause", "keep", "F")

StopAfter(v, pc) ==
  Seg(<<"client.createResponse">>, "done", "keep", IF v = "cp2" THEN "F" ELSE "keep")

SegAfter(v, pc, hasTrack) ==
  CASE KindOf(pc) = "connect"    -> ConnectAfter(v, pc)
    [] KindOf(pc) = "disconnect" -> DisconnectAfter(v, pc)
    [] KindOf(pc) = "start"      -> StartAfter(v, pc, hasTrack)
    [] KindOf(pc) = "stop"       -> StopAfter(v, pc)

(***************************************************************************)
(* The collaborators.  An awaited call takes effect when it resolves; any  *)
(* awaited call may instead reject, and then changes nothing.  Capture     *)
(* cannot start on a device that is not open.                              *)
(***************************************************************************)
CanResolveUnopened(call) == TRUE

CanResolve(call) == call = "rec.record" => recOpen

RecOpenAfter(call) ==
  IF call = "rec.begin" THEN TRUE ELSE IF call = "rec.end" THEN FALSE ELSE recOpen

RecCapturingAfter(call) ==
  IF call = "rec.record" THEN TRUE
  ELSE IF call \in {"rec.pause", "rec.end"} THEN FALSE ELSE recCapturing

PlayerConnectedAfter(call) ==
  IF call = "player.connect" THEN TRUE ELSE playerConnected

\* client.connect() takes effect when it resolves, the synchronous
\* client.disconnect() when it is called.
ClientConnectedAfter(call, calls) ==
  IF Has(calls, "client.disconnect") THEN FALSE
  ELSE IF call = "client.connect" THEN TRUE ELSE clientConnected


(***************************************************************************)
(* The rendered controls: which handler a user action can invoke.  p003    *)
(* renders no control for its handlers, which are taken as callable at any *)
(* time once the page is mounted.                                          *)
(***************************************************************************)
CanInvoke(v, handler) ==
  CASE v = "p003" -> TRUE
    [] v = "p001" -> \/ handler = "connect"    /\ ~isConnected
                     \/ handler = "disconnect" /\ isConnected
                     \/ handler = "start"      /\ isConnected /\ ~isRecording
                     \/ handler = "stop"       /\ isConnected /\ isRecording
    [] v = "cp2"  -> \/ handler = "start" /\ ~isRecording
                     \/ handler = "stop"  /\ isRecording
    [] v = "p002" -> handler \in {"start", "stop"}
    [] v = "cp1"  -> FALSE

\* The effect with an empty dependency list: it runs on mount only.
AutoConnectOnMountOnly(v, c0, r0, c1, r1) == FALSE

\* The effect
\*   useEffect(() => { if (!isConnected) connectConversation()... },
\*             [isConnected, connectConversation])
\* after a render that changed (c0, r0) into (c1, r1).
AutoConnectFires(v, c0, r0, c1, r1) ==
  /\ HasAutoConnect(v)
  /\ c1 # c0 \/ (ConnectDependsOnRecording(v) /\ r1 # r0)
  /\ ~c1

\* connectConversation().then(...).catch(...): the effect catches and logs the
\* rejection of the execution it started; onClick={handler} catches nothing.
Caught(via) == via = "effect"

\* A rejected connect that puts isConnected back to false.
FailSegResets(v, pc) ==
  Seg(NoCalls, "done", IF KindOf(pc) = "connect" THEN "F" ELSE "keep", "keep")

\* A rejected await ends the execution there: no handler has a try, a catch
\* or a finally, so nothing more is called and no state is set.
FailSeg(v, pc) == Seg(NoCalls, "done", "keep", "keep")

\* disconnectConversation has been invoked: every connect in flight is now
\* one that a disconnect has followed.
MarkDisc(b) ==
  LET Mark(t) == IF KindOf(t.pc) = "connect" THEN [t EXCEPT !.disc = TRUE] ELSE t
      Old(u)  == [u EXCEPT !.disc = FALSE]
  IN  [u \in {Mark(t) : t \in DOMAIN b} |->
         (IF u \in DOMAIN b THEN b[u] ELSE 0)
         + (IF Old(u) # u /\ Old(u) \in DOMAIN b /\ Mark(Old(u)) = u
              THEN b[Old(u)] ELSE 0)]

\* The last step, for the properties that speak of calls and invocations.
\*   act    "mount", "invoke" (a user action), "resolve" or "reject" (of the
\*          call the execution awaited at `at`)
\*   done   the execution ended in this step
\*   auto   the auto-connect effect invoked connectConversation in this step
\*   ret    what the resolved call returned (the interrupt() of startRecording)
\*   args   the arguments of the client.cancelResponse of this step, if any
Event(act, kind, at, via, disc, calls, done, auto, autoCalls, wasRecording, ret) ==
  [act |-> act, kind |-> kind, at |-> at, via |-> via, disc |-> disc,
   calls |-> calls, done |-> done, auto |-> auto, autoCalls |-> autoCalls,
   wasRecording |-> wasRecording, ret |-> ret,
   args |-> IF Has(calls, "client.cancelResponse") THEN CancelArgs(ret) ELSE <<>>]

\* One segment `seg` of an execution of `kind`, with `base` the other
\* executions in flight and `resolved` the call whose resolution resumed it
\* ("none" at an invocation or a rejection): the collaborators' new state,
\* the batched state updates, the render and the auto-connect effect.
Commit(act, kind, at, via, disc, seg, base, resolved, ret) ==
  LET c1   == Apply(isConnected, seg.conn)
      r1   == Apply(isRecording, seg.rec)
      t1   == IF seg.next = "done" THEN base
              ELSE base (+) One(Task(seg.next, via, disc))
      fire == mounted /\ AutoConnectFires(variant, isConnected, isRecording, c1, r1)
      cs   == ConnectStart(variant, r1)
  IN  /\ isConnected' = IF fire THEN Apply(c1, cs.conn) ELSE c1
      /\ isRecording' = IF fire THEN Apply(r1, cs.rec) ELSE r1
      /\ tasks' = IF fire THEN t1 (+) One(Task(cs.next, "effect", FALSE)) ELSE t1
      /\ act = "invoke" => NumTasks < MaxTasks
      /\ recOpen' = RecOpenAfter(resolved)
      /\ recCapturing' = RecCapturingAfter(resolved)
      /\ playerConnected' = PlayerConnectedAfter(resolved)
      /\ clientConnected' = ClientConnectedAfter(resolved, seg.calls)
      /\ ev' = Event(act, kind, at, via, disc, seg.calls, seg.next = "done",
                     fire, IF fire THEN cs.calls ELSE NoCalls,
                     act = "invoke" /\ kind = "start" /\ isRecording, ret)
      /\ UNCHANGED <<variant, mounted, vad, realtimeEvents, arrived, item, shown, Page>>

(***************************************************************************)
(* The event log.  A RealtimeEvent is { time, source, event: { type, ... },  *)
(* count? }: its type, the rest of it (payload) and its repeat count, where *)
(* count 0 stands for the count an event is emitted without (undefined,     *)
(* which `count || 0` and `count && ...` treat as 0).                       *)
(***************************************************************************)
EventTypes == {"audio.delta", "response.done"}

Payloads == {"x", "y"}

RealtimeEvent(type, payload) == [type |-> type, payload |-> payload, count |-> 0]

\* The handler appending every event as a new record.
OnRealtimeEventAppends(events, realtimeEvent) == events \o <<realtimeEvent>>

\* The updater of client.on('realtime.event', ...):
\*   const lastEvent = realtimeEvents[realtimeEvents.length - 1];
\*   if (lastEvent?.event.type === realtimeEvent.event.type) {
\*     lastEvent.count = (lastEvent.count || 0) + 1;
\*     return realtimeEvents.slice(0, -1).concat(lastEvent);
\*   } else return realtimeEvents.concat(realtimeEvent);
OnRealtimeEvent(events, realtimeEvent) ==
  IF Len(events) > 0 /\ events[Len(events)].type = realtimeEvent.type
    THEN LET lastEvent == [events[Len(events)] EXCEPT !.count = @ + 1]
         IN  SubSeq(events, 1, Len(events) - 1) \o <<lastEvent>>
    ELSE events \o <<realtimeEvent>>

(***************************************************************************)
(* The transcript.  A conversation item is its role, whether it is a tool  *)
(* call (formatted.tool), formatted.transcript and formatted.text ("" when *)
(* absent) and the length of formatted.audio (0 when absent).              *)
(*   p001a  src/unnamed/part_001:26-253, the other variants as above       *)
(***************************************************************************)
RenderVariants == {"p003", "p001a", "p001", "cp1", "cp2"}

Items ==
  [role : {"user", "assistant", "system"}, tool : BOOLEAN,
   transcript : {"", "said"}, text : {"", "typed"}, audio : 0..MaxAudio]

\* a || b on strings.
Or(a, b) == IF a # "" THEN a ELSE b

Placeholders == {"(awaiting transcript)", "(item sent)", "(truncated)"}

\* The text the page shows for a conversation item in its user / assistant
\* block; "none" when it renders no such block for the item.
Display(v, it) ==
  IF v = "p001"
    THEN Or(it.transcript, Or(it.text, ""))
  ELSE IF it.tool \/ it.role \notin {"user", "assistant"}
    THEN "none"
  ELSE IF it.role = "assistant"
    THEN Or(it.transcript, Or(it.text, "(truncated)"))
  ELSE IF v = "cp1"
    THEN Or(it.transcript, Or(it.text, "(item sent)"))
  ELSE Or(it.transcript,
          IF it.audio > 0 THEN "(awaiting transcript)"
                          ELSE Or(it.text, "(item sent)"))

NoItem == [role |-> "system", tool |-> FALSE, transcript |-> "", text |-> "", audio |-> 0]

(***************************************************************************)
(* The displayed event log (ConsolePage.tsx:215-270).  The event of a log   *)
(* record is its type and, by type, its audio or its delta (Absent when it *)
(* has no such field).  The audio is a base64 string, a sequence of        *)
(* characters; .length is the number of its characters.                    *)
(***************************************************************************)
Bytes == {"A", "B"}

ByteStrings == UNION {[1..n -> Bytes] : n \in 0..MaxBytes}

Absent == <<"absent">>

LoggedEvents ==
  [type : {"input_audio_buffer.append"}, audio : ByteStrings, delta : {Absent}]
    \cup [type : {"response.audio.delta"}, audio : {Absent}, delta : ByteStrings]
    \cup [type : {"response.done"}, audio : {Absent}, delta : {Absent}]

\* `[trimmed: ${n} bytes]`
Trimmed(n) == <<"[trimmed: ", ToString(n), " bytes]">>

\* The body of realtimeEvents.map with the replacement made on the stored
\* event itself.
RenderEventInPlace(stored) ==
  LET event ==
        IF stored.type = "input_audio_buffer.append"
          THEN [stored EXCEPT !.audio = Trimmed(Len(stored.audio))]
        ELSE IF stored.type = "response.audio.delta"
          THEN [stored EXCEPT !.delta = Trimmed(Len(stored.delta))]
        ELSE stored
  IN  [summary |-> event.type, payload |-> event, stored |-> event]

\* The body of realtimeEvents.map: const event = { ...realtimeEvent.event },
\* the replacement of event.audio / event.delta on that copy, the summary
\* ({event.type}) and the payload (JSON.stringify(event)); `stored` is the
\* log record's event afterwards.
RenderEvent(stored) ==
  LET event ==
        IF stored.type = "input_audio_buffer.append"
          THEN [stored EXCEPT !.audio = Trimmed(Len(stored.audio))]
        ELSE IF stored.type = "response.audio.delta"
          THEN [stored EXCEPT !.delta = Trimmed(Len(stored.delta))]
        ELSE stored
  IN  [summary |-> event.type, payload |-> event, stored |-> stored]

(***************************************************************************)
(* The start of ConsolePage(): the API key check and the construction of   *)
(* the client.                                                             *)
(***************************************************************************)
ApiKeys == {"", "sk-a", "sk-b"}

RelayUrls == {"", "http://localhost:8081", "http://relay:8081"}

Envs == [apiKey : ApiKeys, relay : RelayUrls]

\* The variants of the page that construct a client.
KeyCheckVariants == {"p003", "p001a", "p001", "cp1", "cp2", "p002"}

NoClient == [status |-> "none", url |-> "", apiKey |-> ""]

\* The variants that construct the client from LOCAL_RELAY_SERVER_URL when it
\* is set; both components of ConsolePage.tsx always pass the API key.
RelayVariants == {"p003", "p001a", "p001", "p002"}

\*   const apiKey = process.env.REACT_APP_OPENAI_API_KEY || '';
\*   if (!apiKey) throw new Error('Missing OpenAI API Key. ...');
\*   new RealtimeClient(LOCAL_RELAY_SERVER_URL ? { url } : { apiKey, ... })
Startup(v, e) ==
  IF e.apiKey = ""
    THEN [status |-> "error", url |-> "", apiKey |-> ""]
  ELSE IF v \in RelayVariants /\ e.relay # ""
    THEN [status |-> "ok", url |-> e.relay, apiKey |-> ""]
  ELSE [status |-> "ok", url |-> "", apiKey |-> e.apiKey]

\* before: the last step that set the derived state, and the log and the
\* transcript it started from.
NoStep == [step |-> "none", realtimeEvents |-> <<>>, items |-> <<>>]

(***************************************************************************)
(* The waveform render loop (part_000:32-72, part_003:297-362).  wave is   *)
(* the effect's closure and what the browser holds for it:                 *)
(*   started    the effect has run                                         *)
(*   isLoaded   the closure's flag                                         *)
(*   raf        a call of render is scheduled with requestAnimationFrame   *)
(*   canvas     clientCanvasRef.current is not null                        *)
(*   server     serverCanvasRef.current is not null (part_003)             *)
(*   recording  wavRecorder.recording                                      *)
(*   analyser   wavStreamPlayer.analyser is set                            *)
(*   read       the last call of render read the recorder's frequencies    *)
(*   readPlayer the last call of render read the player's frequencies      *)
(*   frames     the calls of render so far, modulo MaxFrames + 1           *)
(***************************************************************************)
WaveVariants == {"p000", "p003"}

NoWave == [started |-> FALSE, isLoaded |-> FALSE, raf |-> FALSE, canvas |-> FALSE,
           server |-> FALSE, recording |-> FALSE, analyser |-> FALSE,
           read |-> FALSE, readPlayer |-> FALSE, frames |-> 0]

Count(n) == (n + 1) % (MaxFrames + 1)

\* One call of renderWave (part_000) / render (part_003).  part_000 calls
\* window.requestAnimationFrame(renderWave) after its `if (isLoaded &&
\* clientCanvas)` block, part_003 inside its `if (isLoaded)` block.
RenderWave(v, w) ==
  [w EXCEPT !.read = w.isLoaded /\ w.canvas /\ w.recording,
            !.readPlayer = v = "p003" /\ w.isLoaded /\ w.server /\ w.analyser,
            !.raf = IF v = "p000" THEN TRUE ELSE w.isLoaded,
            !.frames = Count(w.frames)]

(***************************************************************************)
(* The memory tool (part_003:364-404).  memoryKv maps every key to its     *)
(* value or to Unset; updates is the queue of state updates React has not  *)
(* applied yet; written is the set_memory calls since the memory was last  *)
(* reset, each with the number of updates queued when it was made;         *)
(* toolResult is what the last call of the tool returned.                  *)
(***************************************************************************)
Keys == {"name", "city"}

Values == {"u", "v"}

Unset == "(unset)"

EmptyKv == [k \in Keys |-> Unset]

NoResult == [ok |-> FALSE]

\* setMemoryKv({ ...memoryKv, [key]: value }) with the memoryKv of the render
\* in which the tool was added, the first one.
SetMemoryStale(kv, key, value) == [EmptyKv EXCEPT ![key] = value]

\* (memoryKv) => { const newKv = { ...memoryKv }; newKv[key] = value;
\*                 return newKv; }
SetMemory(kv, key, value) == [kv EXCEPT ![key] = value]

\* One queued update applied to the state.
ApplyUpdate(kv, u) ==
  IF u.op = "reset" THEN EmptyKv ELSE SetMemory(kv, u.key, u.value)

\* React applies the queued updates in the order they were queued.
RECURSIVE ApplyUpdates(_, _)
ApplyUpdates(kv, q) ==
  IF q = <<>> THEN kv ELSE ApplyUpdates(ApplyUpdate(kv, Head(q)), Tail(q))

BackgroundInit ==
  /\ wave = NoWave
  /\ memoryKv = EmptyKv
  /\ updates = <<>>
  /\ written = <<>>
  /\ toolResult = NoResult

\* The state nothing of the page has touched.
PageInit ==
  /\ displayed = <<>>
  /\ env = [apiKey |-> "sk-a", relay |-> ""]
  /\ client = NoClient
  /\ items = <<>>
  /\ conversation = <<>>
  /\ before = NoStep
  /\ BackgroundInit

(***************************************************************************)
(* The actions.                                                            *)
(***************************************************************************)
Init ==
  /\ variant \in Variants
  /\ realtimeEvents = <<>> /\ arrived = <<>>
  /\ item = NoItem /\ shown = "none"
  /\ PageInit
  /\ mounted = FALSE
  /\ isConnected = FALSE
  /\ isRecording = FALSE
  /\ recOpen = FALSE
  /\ recCapturing = FALSE
  /\ playerConnected = FALSE
  /\ clientConnected = FALSE
  /\ vad = FALSE
  /\ tasks = EmptyBag
  /\ ev = Event("init", "none", "none", "none", FALSE, NoCalls, FALSE, FALSE, NoCalls, FALSE,
             NullOffset)

\* The first render and its effects, in the order the component defines them:
\* the turn-detection effect (server_vad; record() only if the client is
\* already connected), then the auto-connect effect.
Mount ==
  /\ ~mounted
  /\ mounted' = TRUE
  /\ vad' = HasTurnDetectionEffect(variant)
  /\ LET fire  == HasAutoConnect(variant) /\ ~isConnected
         cs    == ConnectStart(variant, isRecording)
         calls == IF HasTurnDetectionEffect(variant)
                    THEN IF clientConnected
                           THEN <<"client.updateSession", "rec.record">>
                           ELSE <<"client.updateSession">>
                    ELSE NoCalls
     IN  /\ isConnected' = IF fire THEN Apply(isConnected, cs.conn) ELSE isConnected
         /\ isRecording' = isRecording
         /\ tasks' = IF fire THEN tasks (+) One(Task(cs.next, "effect", FALSE)) ELSE tasks
         /\ ev' = Event("mount", "none", "none", "none", FALSE, calls, FALSE,
                        fire, IF fire THEN cs.calls ELSE NoCalls, FALSE,
                        NullOffset)
  /\ UNCHANGED <<variant, recOpen, recCapturing, playerConnected, clientConnected,
                 realtimeEvents, arrived, item, shown, Page>>

\* A user action invokes connectConversation.
ConnectConversation ==
  /\ mounted /\ CanInvoke(variant, "connect")
  /\ Commit("invoke", "connect", "none", "user", FALSE,
            ConnectStart(variant, isRecording), tasks, "none", NullOffset)

\* A user action invokes disconnectConversation.
DisconnectConversation ==
  /\ mounted /\ HasDisconnect(variant) /\ CanInvoke(variant, "disconnect")
  /\ Commit("invoke", "disconnect", "none", "user", FALSE,
            DisconnectStart(variant), MarkDisc(tasks), "none", NullOffset)

\* A user action invokes startRecording.
StartRecording ==
  /\ mounted /\ HasRecordingHandlers(variant) /\ CanInvoke(variant, "start")
  /\ Commit("invoke", "start", "none", "user", FALSE,
            StartStart(variant, isRecording, recCapturing), tasks, "none", NullOffset)

\* A user action invokes stopRecording.
StopRecording ==
  /\ mounted /\ HasRecordingHandlers(variant) /\ CanInvoke(variant, "stop")
  /\ Commit("invoke", "stop", "none", "user", FALSE,
            StopStart(variant, recCapturing), tasks, "none", NullOffset)

\* The call a suspended execution awaits resolves, and the execution runs on
\* to its next await or to its end.
Resolve ==
  \E t \in BagToSet(tasks), ret \in TrackOffsets :
    /\ CanResolve(AwaitedCall(t.pc))
    /\ ret # NullOffset => t.pc = "s_interrupt"
    /\ Commit("resolve", KindOf(t.pc), t.pc, t.via, t.disc,
              SegAfter(variant, t.pc, HasTrackId(ret)), tasks (-) One(t),
              AwaitedCall(t.pc), ret)

\* The call a suspended execution awaits rejects, and the execution ends.
Reject ==
  \E t \in BagToSet(tasks) :
    Commit("reject", KindOf(t.pc), t.pc, t.via, t.disc,
           FailSeg(variant, t.pc), tasks (-) One(t), "none", NullOffset)

Next ==
  \/ Mount
  \/ ConnectConversation
  \/ DisconnectConversation
  \/ StartRecording
  \/ StopRecording
  \/ Resolve
  \/ Reject

Spec == Init /\ [][Next]_vars

Session == <<variant, mounted, isConnected, isRecording, recOpen, recCapturing,
             playerConnected, clientConnected, vad, tasks, ev>>

(***************************************************************************)
(* The event log on its own: events of any type and payload arrive, and    *)
(* connectConversation / disconnectConversation empty the log.             *)
(***************************************************************************)
InitLog ==
  /\ Init
  /\ variant = "p003"

\* client.on('realtime.event', ...): an event arrives.
RealtimeEventArrives ==
  \E type \in EventTypes, payload \in Payloads :
    /\ Len(arrived) < MaxEvents
    /\ realtimeEvents' = OnRealtimeEvent(realtimeEvents, RealtimeEvent(type, payload))
    /\ arrived' = Append(arrived, RealtimeEvent(type, payload))
    /\ UNCHANGED <<Session, item, shown, Page>>

\* setRealtimeEvents([])
ResetEvents ==
  /\ realtimeEvents' = <<>>
  /\ arrived' = <<>>
  /\ UNCHANGED <<Session, item, shown, Page>>

NextLog == RealtimeEventArrives \/ ResetEvents

SpecLog == InitLog /\ [][NextLog]_vars

(***************************************************************************)
(* The transcript on its own: a page shows a conversation item, and shows  *)
(* it again whenever setItems replaces it.                                 *)
(***************************************************************************)
InitRender ==
  /\ variant \in RenderVariants
  /\ realtimeEvents = <<>> /\ arrived = <<>>
  /\ item \in Items /\ shown = Display(variant, item)
  /\ PageInit
  /\ mounted = TRUE
  /\ isConnected = FALSE /\ isRecording = FALSE
  /\ recOpen = FALSE /\ recCapturing = FALSE
  /\ playerConnected = FALSE /\ clientConnected = FALSE
  /\ vad = FALSE
  /\ tasks = EmptyBag
  /\ ev = Event("init", "none", "none", "none", FALSE, NoCalls, FALSE, FALSE, NoCalls, FALSE,
                NullOffset)

\* setItems(client.conversation.getItems()) and the render that follows.
SetItems ==
  \E it \in Items :
    /\ item' = it
    /\ shown' = Display(variant, it)
    /\ UNCHANGED <<Session, realtimeEvents, arrived, Page>>

NextRender == SetItems

SpecRender == InitRender /\ [][NextRender]_vars

(***************************************************************************)
(* The displayed event log on its own: the page renders a log of one or    *)
(* two records.  arrived holds the events as they were stored.             *)
(***************************************************************************)
InitEvents ==
  /\ Init
  /\ variant = "cp1"

\* realtimeEvents.map(...): the log is rendered.
RenderEvents ==
  \E log \in UNION {[1..n -> LoggedEvents] : n \in 1..2} :
    /\ arrived' = log
    /\ realtimeEvents' = [i \in 1..Len(log) |-> RenderEvent(log[i]).stored]
    /\ displayed' = [i \in 1..Len(log) |->
                       [summary |-> RenderEvent(log[i]).summary,
                        payload |-> RenderEvent(log[i]).payload]]
    /\ UNCHANGED <<Session, item, shown, env, client, items, conversation, before, Background>>

NextEvents == RenderEvents

SpecEvents == InitEvents /\ [][NextEvents]_vars

(***************************************************************************)
(* The start of the page on its own, for every environment.                *)
(***************************************************************************)
InitStartup ==
  /\ variant \in KeyCheckVariants
  /\ env \in Envs
  /\ client = NoClient
  /\ displayed = <<>> /\ items = <<>> /\ conversation = <<>> /\ before = NoStep
  /\ BackgroundInit
  /\ realtimeEvents = <<>> /\ arrived = <<>>
  /\ item = NoItem /\ shown = "none"
  /\ mounted = FALSE
  /\ isConnected = FALSE /\ isRecording = FALSE
  /\ recOpen = FALSE /\ recCapturing = FALSE
  /\ playerConnected = FALSE /\ clientConnected = FALSE
  /\ vad = FALSE
  /\ tasks = EmptyBag
  /\ ev = Event("init", "none", "none", "none", FALSE, NoCalls, FALSE, FALSE, NoCalls, FALSE,
                NullOffset)

\* ConsolePage() is called for the first time.
StartPage ==
  /\ client = NoClient
  /\ client' = Startup(variant, env)
  /\ UNCHANGED <<Session, realtimeEvents, arrived, item, shown, displayed, env,
                 items, conversation, before, Background>>

NextStartup == StartPage

SpecStartup == InitStartup /\ [][NextStartup]_vars

(***************************************************************************)
(* The derived state on its own: events arrive, the client's conversation  *)
(* grows, connectConversation and disconnectConversation set the log and   *)
(* the transcript.  Each step is one committed render; the auto-connect    *)
(* effect that follows the render of a disconnect is the next step.        *)
(***************************************************************************)
InitDerived ==
  /\ Init
  /\ variant \in {"p003", "p001"}

\* The 'realtime.event' handler; part_001's second component keeps no log.
EventLogged ==
  \E type \in EventTypes, payload \in Payloads :
    /\ variant = "p003"
    /\ Len(arrived) < MaxEvents
    /\ realtimeEvents' = OnRealtimeEvent(realtimeEvents, RealtimeEvent(type, payload))
    /\ arrived' = Append(arrived, RealtimeEvent(type, payload))
    /\ before' = [step |-> "event", realtimeEvents |-> realtimeEvents, items |-> items]
    /\ UNCHANGED <<Session, item, shown, displayed, env, client, items, conversation, Background>>

\* The client adds an item to its conversation.
ConversationGrows ==
  /\ Len(conversation) < MaxItems
  /\ conversation' = Append(conversation, Len(conversation) + 1)
  /\ UNCHANGED <<Session, realtimeEvents, arrived, item, shown, displayed, env,
                 client, items, before, Background>>

\* The derived state disconnectConversation would leave if it did not reset
\* the transcript.
DerivedAfterDisconnectKeepsItems(log, its) == [realtimeEvents |-> <<>>, items |-> its]

\* setRealtimeEvents([]); setItems([]) of disconnectConversation.
DerivedAfterDisconnect(log, its) == [realtimeEvents |-> <<>>, items |-> <<>>]

\* setRealtimeEvents([]); setItems(client.conversation.getItems()) of
\* connectConversation.
DerivedAfterConnect(log, conv) == [realtimeEvents |-> <<>>, items |-> conv]

ConnectRefreshes ==
  /\ realtimeEvents' = DerivedAfterConnect(realtimeEvents, conversation).realtimeEvents
  /\ items' = DerivedAfterConnect(realtimeEvents, conversation).items
  /\ arrived' = <<>>
  /\ before' = [step |-> "connect", realtimeEvents |-> realtimeEvents, items |-> items]
  /\ UNCHANGED <<Session, item, shown, displayed, env, client, conversation, Background>>

\* disconnectConversation up to its first await; client.disconnect() may or
\* may not empty the client's conversation.
DisconnectResets ==
  \E cleared \in BOOLEAN :
    /\ realtimeEvents' = DerivedAfterDisconnect(realtimeEvents, items).realtimeEvents
    /\ items' = DerivedAfterDisconnect(realtimeEvents, items).items
    /\ arrived' = <<>>
    /\ conversation' = IF cleared THEN <<>> ELSE conversation
    /\ before' = [step |-> "disconnect", realtimeEvents |-> realtimeEvents, items |-> items]
    /\ UNCHANGED <<Session, item, shown, displayed, env, client, Background>>

NextDerived == EventLogged \/ ConversationGrows \/ ConnectRefreshes \/ DisconnectResets

SpecDerived == InitDerived /\ [][NextDerived]_vars

(***************************************************************************)
(* The session with the recorder's capture callback: while the recorder is *)
(* capturing it calls the function given to record() with every chunk.     *)
(***************************************************************************)
\* (data) => client.appendInputAudio(data.mono)
AppendInputAudio ==
  /\ recCapturing
  /\ ev' = Event("chunk", "capture", "none", "recorder", FALSE,
                 <<"client.appendInputAudio">>, FALSE, FALSE, NoCalls, isRecording,
                 NullOffset)
  /\ UNCHANGED <<variant, mounted, isConnected, isRecording, recOpen, recCapturing,
                 playerConnected, clientConnected, vad, tasks,
                 realtimeEvents, arrived, item, shown, Page>>

NextAudio == Next \/ AppendInputAudio

SpecAudio == Init /\ [][NextAudio]_vars

(***************************************************************************)
(* The render loop on its own.  The browser runs a scheduled animation     *)
(* frame callback: weak fairness on Frame.                                 *)
(***************************************************************************)
InitWave ==
  /\ Init
  /\ variant = "p003"

\* The effect runs: isLoaded = true, then the first call of render.
StartWave ==
  \E v \in WaveVariants, c \in BOOLEAN, sc \in BOOLEAN :
    /\ ~wave.started
    /\ v = "p000" => ~sc
    /\ variant' = v
    /\ wave' = RenderWave(v, [wave EXCEPT !.started = TRUE, !.isLoaded = TRUE,
                                          !.canvas = c, !.server = sc])
    /\ UNCHANGED <<mounted, isConnected, isRecording, recOpen, recCapturing,
                   playerConnected, clientConnected, vad, tasks, ev,
                   realtimeEvents, arrived, item, shown,
                   displayed, env, client, items, conversation, before,
                   memoryKv, updates, written, toolResult>>

\* The browser calls the scheduled render.
Frame ==
  /\ wave.raf
  /\ wave' = RenderWave(variant, [wave EXCEPT !.raf = FALSE])
  /\ UNCHANGED <<Session, realtimeEvents, arrived, item, shown,
                 displayed, env, client, items, conversation, before,
                 memoryKv, updates, written, toolResult>>

\* The effect's cleanup: isLoaded = false.
Unmount ==
  /\ wave.started /\ wave.isLoaded
  /\ wave' = [wave EXCEPT !.isLoaded = FALSE]
  /\ UNCHANGED <<Session, realtimeEvents, arrived, item, shown,
                 displayed, env, client, items, conversation, before,
                 memoryKv, updates, written, toolResult>>

\* The recorder starts or stops capturing; the player (part_003) gets or
\* loses its analyser.
RecordingChanges ==
  /\ wave.started
  /\ \/ wave' = [wave EXCEPT !.recording = ~wave.recording]
     \/ variant = "p003" /\ wave' = [wave EXCEPT !.analyser = ~wave.analyser]
  /\ UNCHANGED <<Session, realtimeEvents, arrived, item, shown,
                 displayed, env, client, items, conversation, before,
                 memoryKv, updates, written, toolResult>>

NextWave == StartWave \/ Frame \/ Unmount \/ RecordingChanges

SpecWave == InitWave /\ [][NextWave]_vars /\ WF_vars(Frame)

(***************************************************************************)
(* The memory on its own: the tool set_memory is called, React applies the *)
(* queued updates, disconnectConversation resets the memory.               *)
(***************************************************************************)
InitMemory ==
  /\ Init
  /\ variant = "p003"

\* The set_memory handler: setMemoryKv(updater); return { ok: true }.
SetMemoryTool ==
  \E key \in Keys, value \in Values :
    /\ Len(written) < MaxWrites
    /\ updates' = Append(updates, [op |-> "set", key |-> key, value |-> value])
    /\ written' = Append(written, [key |-> key, value |-> value,
                                   queued |-> Len(updates)])
    /\ toolResult' = [ok |-> TRUE]
    /\ UNCHANGED <<Session, realtimeEvents, arrived, item, shown,
                   displayed, env, client, items, conversation, before,
                   wave, memoryKv>>

\* React renders: the queued updates are applied in order.
CommitMemory ==
  /\ updates # <<>>
  /\ memoryKv' = ApplyUpdates(memoryKv, updates)
  /\ updates' = <<>>
  /\ UNCHANGED <<Session, realtimeEvents, arrived, item, shown,
                 displayed, env, client, items, conversation, before,
                 wave, written, toolResult>>

\* disconnectConversation: setMemoryKv({}) and the render that follows it.
DisconnectMemory ==
  /\ memoryKv' = ApplyUpdates(memoryKv, Append(updates, [op |-> "reset"]))
  /\ updates' = <<>>
  /\ written' = <<>>
  /\ UNCHANGED <<Session, realtimeEvents, arrived, item, shown,
                 displayed, env, client, items, conversation, before,
                 wave, toolResult>>

NextMemory == SetMemoryTool \/ CommitMemory \/ DisconnectMemory

SpecMemory == InitMemory /\ [][NextMemory]_vars


(***************************************************************************)
(* Properties.                                                             *)
(***************************************************************************)
ConnectStep == ev.kind = "connect" /\ ev.act \in {"invoke", "resolve"}

Greeting == "client.sendUserMessageContent"

\* The calls a disconnectConversation suspended at pc has issued so far.
DisconnectIssued(v, pc) ==
  IF pc = "d_end" THEN DisconnectStart(v).calls
  ELSE DisconnectStart(v).calls \o DisconnectAfter(v, "d_end").calls

\* C1: connectConversation establishes the capture device, the playback sink
\* and the remote connection in that order: it calls wavStreamPlayer.connect()
\* only in the continuation of its wavRecorder.begin() having resolved, and
\* client.connect() only in the continuation of its wavStreamPlayer.connect()
\* having resolved; begin() is called at its start (or after its pause()).
ConnectOrder ==
  /\ ~Has(ev.autoCalls, "player.connect") /\ ~Has(ev.autoCalls, "client.connect")
  /\ ConnectStep =>
       /\ Has(ev.calls, "rec.begin") =>
            ev.act = "invoke" \/ (ev.act = "resolve" /\ ev.at = "c_pause")
       /\ Has(ev.calls, "player.connect") =>
            ev.act = "resolve" /\ ev.at = "c_begin"
       /\ Has(ev.calls, "client.connect") =>
            ev.act = "resolve" /\ ev.at = "c_player"

\* C1 witness: a connect whose wavStreamPlayer.connect() has just resolved
\* calls client.connect(), with the device open and the sink connected.
ConnectOrderReached ==
  /\ ConnectStep /\ ev.act = "resolve" /\ ev.at = "c_player"
  /\ Has(ev.calls, "client.connect")
  /\ recOpen /\ playerConnected /\ ~clientConnected

\* C2: when a connectConversation that had opened the capture device fails,
\* the device is closed by the time the failure has settled.
FailedConnectTearsDown ==
  (ev.act = "reject" /\ ev.kind = "connect"
     /\ ev.at \in {"c_player", "c_client", "c_record"}) => ~recOpen

\* C3: a disconnectConversation that has ended, however it ended, has called
\* client.disconnect(), wavRecorder.end() and wavStreamPlayer.interrupt().
DisconnectReleasesAll ==
  (ev.kind = "disconnect" /\ ev.done) =>
    \A c \in {"client.disconnect", "rec.end", "player.interrupt"} :
      Has(DisconnectIssued(variant, ev.at) \o ev.calls, c)

\* C4: a connectConversation that was suspended when disconnectConversation
\* was invoked issues no greeting and no record() afterwards, and when it has
\* settled with the session idle the device is closed, capture is not running
\* and the client is disconnected.
DisconnectReversesConnect ==
  (ev.kind = "connect" /\ ev.disc) =>
    /\ ~Has(ev.calls, Greeting) /\ ~Has(ev.calls, "rec.record")
    /\ (ev.done /\ ~isConnected /\ tasks = EmptyBag) =>
         (~recOpen /\ ~recCapturing /\ ~clientConnected)

\* C5: the session is never idle (isConnected false, no connect or disconnect
\* in flight) with the capture device open.
IdleHoldsNoDevice ==
  (mounted /\ ~isConnected /\ ~InFlight("connect") /\ ~InFlight("disconnect"))
    => ~recOpen

\* C6: wavRecorder.record() is never issued while the session is not connected
\* or while a disconnectConversation is in progress.
RecordOnlyWhileLive ==
  (Has(ev.calls, "rec.record") \/ Has(ev.autoCalls, "rec.record")) =>
    (isConnected /\ ~InFlight("disconnect"))

FailedConnectLeavesDisconnected ==
  (ev.act = "reject" /\ ev.kind = "connect") => ~isConnected

\* C9: the auto-connect effect invokes connectConversation only at the mount
\* or in the step of a user action: never when a call rejects (a failed
\* connect is not retried) nor when one resolves.
NoAutomaticRetry ==
  ev.auto => ev.act \in {"mount", "invoke"}

\* C9 witness: a connect started by the effect has just failed, and nothing
\* invoked connectConversation again.
FailedConnectNotRetried ==
  /\ ev.act = "reject" /\ ev.kind = "connect" /\ ev.via = "effect"
  /\ ~ev.auto /\ ~InFlight("connect")

\* C10: startRecording invoked while isRecording is true is a no-op: it calls
\* nothing, ends at once and leaves isRecording true.
StartWhileRecordingIsNoOp ==
  (ev.act = "invoke" /\ ev.kind = "start" /\ ev.wasRecording) =>
    (ev.calls = NoCalls /\ ev.done /\ ~ev.auto /\ isRecording)

\* C11: startRecording calls wavRecorder.record() only in the continuation of
\* its wavStreamPlayer.interrupt() having resolved without a trackId, or of
\* the client.cancelResponse it then awaited; when interrupt() resolves with
\* an offset that has a trackId, the one call of that continuation is
\* client.cancelResponse with that trackId and that offset, and
\* cancelResponse is called nowhere else.
InterruptBeforeRecord ==
  ev.kind = "start" =>
    /\ Has(ev.calls, "rec.record") =>
         /\ ev.act = "resolve" /\ ev.at \in {"s_interrupt", "s_cancel"}
         /\ ev.at = "s_interrupt" => ~HasTrackId(ev.ret)
    /\ (ev.act = "resolve" /\ ev.at = "s_interrupt" /\ HasTrackId(ev.ret)) =>
         /\ ev.calls = <<"client.cancelResponse">>
         /\ ev.args = <<ev.ret.trackId, ev.ret.offset>>
    /\ Has(ev.calls, "client.cancelResponse") =>
         ev.act = "resolve" /\ ev.at = "s_interrupt" /\ HasTrackId(ev.ret)

\* C11 witness: interrupt() has just resolved with track "b" cut at sample
\* MaxOffset, and startRecording calls cancelResponse("b", MaxOffset).
InterruptedTrackReported ==
  /\ ev.kind = "start" /\ ev.act = "resolve" /\ ev.at = "s_interrupt"
  /\ ev.ret = [null |-> FALSE, trackId |-> "b", offset |-> MaxOffset]
  /\ ev.calls = <<"client.cancelResponse">> /\ ev.args = <<"b", MaxOffset>>
  /\ \E t \in BagToSet(tasks) : t.pc = "s_cancel"

\* C12: a stopRecording that has ended has ended in the continuation of its
\* wavRecorder.pause() having resolved, calling client.createResponse() there
\* and nowhere else, and capture is not running.
StopPausesThenResponds ==
  (ev.kind = "stop" /\ ev.done) =>
    /\ ev.act = "resolve" /\ ev.at = "t_pause"
    /\ ev.calls = <<"client.createResponse">>
    /\ ~recCapturing

\* C13: once the session has been configured with server_vad turn detection,
\* neither startRecording nor stopRecording runs.
TurnTakingExclusive ==
  vad => ev.kind \notin {"start", "stop"}

\* C19: the greeting is sent by connectConversation only, once, in the
\* continuation of its client.connect() having resolved (which follows its
\* begin()), as the call just before its record(); a connect whose call
\* rejects sends nothing.
GreetingOncePerConnect ==
  /\ ~Has(ev.autoCalls, Greeting)
  /\ Has(ev.calls, Greeting) =>
       /\ ev.kind = "connect" /\ ev.act = "resolve" /\ ev.at = "c_client"
       /\ ev.calls = <<Greeting, "rec.record">>
  /\ (ev.kind = "connect" /\ ev.act = "resolve" /\ ev.at = "c_client") =>
       Has(ev.calls, Greeting)
  /\ (ev.kind = "connect" /\ ev.act = "reject") => ~Has(ev.calls, Greeting)

\* C19 witness: a connect not followed by a disconnect sends its greeting
\* with the device open and the client connected.
GreetingSent ==
  /\ ev.kind = "connect" /\ ev.act = "resolve" /\ ev.at = "c_client"
  /\ ev.calls = <<Greeting, "rec.record">>
  /\ recOpen /\ clientConnected /\ ~recCapturing

\* C20: at most one lifecycle transition (connectConversation or
\* disconnectConversation) is in flight at any time.
LifecycleSerialized ==
  \A t, u \in BagToSet(tasks) :
    (KindOf(t.pc) \in {"connect", "disconnect"}
       /\ KindOf(u.pc) \in {"connect", "disconnect"}) =>
      (t = u /\ tasks[t] = 1)

\* The arrival sequence s cut into its maximal runs of adjacent events of the
\* same type: where each run starts, where the run starting at i ends, and
\* where the n-th run starts.
RunStarts(s) == {i \in 1..Len(s) : i = 1 \/ s[i].type # s[i-1].type}

RunEnd(s, i) ==
  CHOOSE j \in i..Len(s) :
    /\ \A k \in i..j : s[k].type = s[i].type
    /\ j = Len(s) \/ s[j+1].type # s[i].type

NthRun(s, n) ==
  CHOOSE i \in RunStarts(s) : Cardinality({j \in RunStarts(s) : j <= i}) = n

LoggedRuns ==
  {n \in 1..Len(realtimeEvents) : n <= Cardinality(RunStarts(arrived))}

\* C14: the record of a run of N consecutive events of one type has repeat
\* count N.
RunCountIsLength ==
  \A n \in LoggedRuns :
    realtimeEvents[n].count
      = RunEnd(arrived, NthRun(arrived, n)) - NthRun(arrived, n) + 1

\* C15: the record of a run holds the payload of the most recently arrived
\* event of the run.
CollapsedKeepsLatestPayload ==
  \A n \in LoggedRuns :
    realtimeEvents[n].payload
      = arrived[RunEnd(arrived, NthRun(arrived, n))].payload

\* C16: the types of the event log are the types of the events arrived since
\* the last reset, in arrival order, with each maximal run of adjacent equal
\* types as one record.
LogIsCollapsedArrival ==
  /\ Len(realtimeEvents) = Cardinality(RunStarts(arrived))
  /\ \A n \in LoggedRuns :
       realtimeEvents[n].type = arrived[NthRun(arrived, n)].type

\* C16 witness: MaxEvents events have arrived in three runs, the type of the
\* first run coming back after the second, and the log has three records.
ThreeRunsLogged ==
  /\ Len(arrived) = MaxEvents /\ Len(realtimeEvents) = 3
  /\ arrived[1].type = arrived[2].type
  /\ realtimeEvents[1].type = realtimeEvents[3].type
  /\ realtimeEvents[1].type # realtimeEvents[2].type

PendingPlaceholder == "(awaiting transcript)"

Spoken == ~item.tool /\ item.role \in {"user", "assistant"}

\* C17: a user or assistant item that is not a tool call is shown with its
\* transcript if it has one, else with its text if it has one, else with a
\* placeholder.
TranscriptFallbackOrder ==
  Spoken =>
    IF item.transcript # "" THEN shown = item.transcript
    ELSE IF item.text # "" THEN shown = item.text
    ELSE shown \in Placeholders

\* C18: an item with audio but neither transcript nor text is shown with the
\* pending-transcription placeholder, and an item with a transcript is never
\* shown with a placeholder.
PendingPlaceholderShown ==
  Spoken =>
    /\ (item.transcript = "" /\ item.text = "" /\ item.audio > 0) =>
         shown = PendingPlaceholder
    /\ item.transcript # "" => shown \notin Placeholders

\* C21: the rejection of an awaited call is caught where the transition was
\* invoked: no execution that ends by a rejection was invoked without a catch.
NoUnhandledRejection ==
  ev.act = "reject" => Caught(ev.via)

\* C22: a disconnectConversation invoked right after another one has
\* completed is a no-op on the session: isConnected is what it was and no
\* connectConversation is started.
DisconnectIdempotent ==
  [][(ev.kind = "disconnect" /\ ev.act = "resolve" /\ ev.done
        /\ ev'.kind = "disconnect" /\ ev'.act = "invoke")
       => (isConnected' = isConnected /\ ~ev'.auto)]_vars

ConnectStarted ==
  \/ ev.act = "invoke" /\ ev.kind = "connect"
  \/ ev.auto

ConnectStartedCalls == IF ev.auto THEN ev.autoCalls ELSE ev.calls

\* C27 as stated, for every variant: a connectConversation invoked while
\* isRecording is true calls wavRecorder.pause() first, and wavRecorder.begin()
\* only when that pause() has resolved.
ConnectPausesRecordingFirst ==
  (ConnectStarted /\ isRecording) => ConnectStartedCalls = <<"rec.pause">>

\* C27 as amended: in the variants whose connectConversation checks
\* isRecording, a connect invoked while isRecording is true calls pause()
\* first, calls begin() and clears isRecording when the pause() has resolved,
\* and a connect step sets isRecording only when its record() has resolved.
CheckedConnectPausesFirst ==
  [][ConnectPausesFirst(variant) =>
       /\ (ConnectStarted /\ isRecording => ConnectStartedCalls = <<"rec.pause">>)'
       /\ (ev.kind = "connect" /\ ev.act = "resolve" /\ ev.at = "c_pause"
             => ev.calls = <<"rec.begin">> /\ ~isRecording)'
       /\ (ev.kind = "connect" /\ Has(ev.calls, "rec.begin")
             => \/ ev.act = "invoke" /\ ~isRecording
                \/ ev.act = "resolve" /\ ev.at = "c_pause")'
       /\ (~isRecording /\ isRecording' /\ ev'.kind = "connect")
             => (ev'.act = "resolve" /\ ev'.at = "c_record")]_vars

\* C27 witness: the pause() of a connect invoked during a recording has just
\* resolved: isRecording is cleared and begin() is called.
RecordingPausedByConnect ==
  /\ ConnectPausesFirst(variant)
  /\ ev.kind = "connect" /\ ev.act = "resolve" /\ ev.at = "c_pause"
  /\ ev.calls = <<"rec.begin">> /\ ~isRecording /\ isConnected

\* C28: whenever no handler execution is in flight, isRecording is true
\* exactly when the recorder is capturing.
FlagAgreesWithCapture ==
  (mounted /\ tasks = EmptyBag) => (isRecording <=> recCapturing)

\* C29: wavRecorder.record() is never called while the recorder is capturing.
RecordNotWhileCapturing ==
  (Has(ev.calls, "rec.record") \/ Has(ev.autoCalls, "rec.record")) => ~recCapturing

\* C30: wavRecorder.begin() is never called while the capture device is open.
BeginNotWhileOpen ==
  (Has(ev.calls, "rec.begin") \/ Has(ev.autoCalls, "rec.begin")) => ~recOpen

AudioTrimmedOnCopy ==
  /\ realtimeEvents = arrived
  /\ Len(displayed) = Len(arrived)
  /\ \A i \in 1..Len(displayed) :
       /\ displayed[i].summary = arrived[i].type
       /\ displayed[i].payload.type = arrived[i].type
       /\ arrived[i].type = "input_audio_buffer.append" =>
            /\ displayed[i].payload.audio = Trimmed(Len(arrived[i].audio))
            /\ displayed[i].payload.audio # arrived[i].audio
       /\ arrived[i].type = "response.audio.delta" =>
            /\ displayed[i].payload.delta = Trimmed(Len(arrived[i].delta))
            /\ displayed[i].payload.delta # arrived[i].delta

\* A log holding a microphone chunk and a response chunk of MaxBytes characters
\* has been rendered.
AudioRecordsDisplayed ==
  /\ Len(displayed) = 2
  /\ arrived[1].type = "input_audio_buffer.append" /\ Len(arrived[1].audio) = MaxBytes
  /\ arrived[2].type = "response.audio.delta" /\ Len(arrived[2].delta) = MaxBytes
  /\ displayed[1].payload.audio = Trimmed(MaxBytes)
  /\ displayed[2].payload.delta = Trimmed(MaxBytes)
  /\ realtimeEvents[1].audio = arrived[1].audio

\* C26: with the relay URL configured and the API key empty, the page starts
\* without an error and its client is constructed against the relay URL.
RelayNeedsNoApiKey ==
  (client.status # "none" /\ env.relay # "" /\ env.apiKey = "") =>
    (client.status = "ok" /\ client.url = env.relay)

\* C31: the capture callback calls client.appendInputAudio only while the
\* client is connected: not before client.connect() has resolved and not
\* after client.disconnect() has been called.
AudioOnlyWhileConnected ==
  Has(ev.calls, "client.appendInputAudio") => clientConnected

\* C33: once the effect's cleanup has set isLoaded to false, from some point
\* on no call of render is scheduled with requestAnimationFrame.
RenderLoopTerminates ==
  (wave.started /\ ~wave.isLoaded) ~> [](~wave.raf)

\* An execution of connectConversation that the effect started is in flight.
EffectConnectInFlight ==
  \E t \in BagToSet(tasks) : KindOf(t.pc) = "connect" /\ t.via = "effect"

\* C32 as stated: every disconnectConversation is followed, in the render it
\* commits, by the auto-connect effect invoking connectConversation.
DisconnectReconnects ==
  (ev.act = "invoke" /\ ev.kind = "disconnect") => ev.auto

\* C32 as amended: on mount, and after every disconnectConversation invoked
\* while isConnected is true, the effect invokes connectConversation in the
\* same render, with no user action, and that attempt is in flight; a
\* disconnectConversation invoked while isConnected is already false changes
\* no dependency of the effect and starts no attempt.
DisconnectWhileConnectedReconnects ==
  [][/\ (ev'.act = "mount" /\ HasAutoConnect(variant)) =>
          (ev'.auto /\ EffectConnectInFlight')
     /\ (ev'.act = "invoke" /\ ev'.kind = "disconnect" /\ isConnected) =>
          (ev'.auto /\ EffectConnectInFlight' /\ ev'.autoCalls # NoCalls)
     /\ (ev'.act = "invoke" /\ ev'.kind = "disconnect" /\ ~isConnected) =>
          ~ev'.auto]_vars

\* A disconnectConversation invoked on a connected session has made the
\* effect start a connect that opens the microphone again.
ReconnectedAfterDisconnect ==
  /\ ev.act = "invoke" /\ ev.kind = "disconnect"
  /\ Has(ev.calls, "client.disconnect")
  /\ ev.auto /\ ev.autoCalls = <<"rec.begin">>
  /\ isConnected /\ EffectConnectInFlight

\* The value of the last call in w that wrote key k, Unset if there is none.
LastWrite(w, k) ==
  LET at == {i \in 1..Len(w) : w[i].key = k}
  IN  IF at = {} THEN Unset
      ELSE w[CHOOSE i \in at : \A j \in at : j <= i].value

\* C34: every set_memory(key, value) makes memoryKv[key] = value, leaves the
\* other keys as they were and returns { ok: true }; whatever calls are
\* queued together, once they are applied every key holds the value of the
\* last call that wrote it (no write is lost); disconnectConversation leaves
\* memoryKv empty.
MemoryHoldsAllWrites ==
  /\ \A k \in Keys : ApplyUpdates(memoryKv, updates)[k] = LastWrite(written, k)
  /\ updates = <<>> => \A k \in Keys : memoryKv[k] = LastWrite(written, k)
  /\ written # <<>> => toolResult = [ok |-> TRUE]
  /\ (written = <<>> /\ updates = <<>>) => memoryKv = EmptyKv

\* Two calls that wrote different keys were queued on the same memoryKv (the
\* second was made while the first was not applied yet) and have both been
\* applied.
TwoWritesApplied ==
  /\ Len(written) = 2 /\ written[1].key # written[2].key
  /\ written[1].queued = 0 /\ written[2].queued = 1
  /\ updates = <<>>
  /\ memoryKv[written[1].key] = written[1].value
  /\ memoryKv[written[2].key] = written[2].value
  /\ toolResult.ok

====
